---- MODULE Spec2Model ----
(***************************************************************************)
(* Model of inspector_app.py: the TABLA RIESGO parser, the classification  *)
(* of a finding, the session buffer, the DATOS merge and the summary       *)
(* context.                                                                *)
(*                                                                         *)
(* Python values are records [t, n, s]: t is the type tag, n the number    *)
(* (an int, a float in tenths, a date ordinal) and s the text, a sequence  *)
(* of tokens (words; " " is a run of whitespace).  Indices are 0-based as  *)
(* in the source (DataFrame.iloc).                                         *)
(***************************************************************************)
EXTENDS Integers, Sequences, FiniteSets, TLC

VARIABLES libro, _buffer, _fotos, salida, subido, leido, M_ref, A_ref, disp, alteradas

vars == <<libro, _buffer, _fotos, salida, subido, leido, M_ref, A_ref, disp, alteradas>>

----------------------------------------------------------------------------
(* Python values *)

Ninguno == [t |-> "none", n |-> 0, s |-> <<>>]

NaN == [t |-> "nan", n |-> 0, s |-> <<>>]

Ent(k) == [t |-> "int", n |-> k, s |-> <<>>]

Dec(d) == [t |-> "float", n |-> d, s |-> <<>>]

Str(s) == [t |-> "str", n |-> 0, s |-> s]

Fecha(d) == [t |-> "date", n |-> d, s |-> <<>>]

EsStr(v) == v.t = "str"

Min2(a, b) == IF a <= b THEN a ELSE b

RECURSIVE LStrip(_)
LStrip(s) == IF s # <<>> /\ Head(s) = " " THEN LStrip(Tail(s)) ELSE s

RECURSIVE RStrip(_)
RStrip(s) == IF s # <<>> /\ s[Len(s)] = " " THEN RStrip(SubSeq(s, 1, Len(s) - 1)) ELSE s

\* str.strip()
Strip(s) == RStrip(LStrip(s))

\* str.lower(), token by token; an accented letter stays accented
LowerTok(w) ==
  CASE w \in {"Gravedad", "GRAVEDAD"} -> "gravedad"
    [] w \in {"Probabilidad", "PROBABILIDAD"} -> "probabilidad"
    [] w \in {"Evaluacion del riesgo", "EVALUACION DEL RIESGO"} -> "evaluacion del riesgo"
    [] OTHER -> w

Lower(s) == [i \in DOMAIN s |-> LowerTok(s[i])]

\* kw in s
Contiene(s, kw) == \E i \in DOMAIN s : s[i] = kw

Digitos == [w \in {"1", "2", "3", "4"} |-> CASE w = "1" -> 1 [] w = "2" -> 2 [] w = "3" -> 3 [] OTHER -> 4]

\* int(x): [ok, n]; a float truncates, a digit string parses, NaN, None and
\* any other text raise
IntDe(v) ==
  CASE v.t = "int" -> [ok |-> TRUE, n |-> v.n]
    [] v.t = "float" -> [ok |-> TRUE, n |-> v.n \div 10]
    [] v.t = "str" /\ Len(Strip(v.s)) = 1 /\ Strip(v.s)[1] \in DOMAIN Digitos
         -> [ok |-> TRUE, n |-> Digitos[Strip(v.s)[1]]]
    [] OTHER -> [ok |-> FALSE, n |-> 0]

\* A mapping as the parser returns it: None, or a non-empty dict
Ausente == [presente |-> FALSE, mapa |-> <<>>]

Presente(f) == [presente |-> TRUE, mapa |-> f]

\* "if not d: d = None"
DictONone(f) == IF DOMAIN f = {} THEN Ausente ELSE Presente(f)

\* dict.get
Get(d, k) == IF d.presente /\ k \in DOMAIN d.mapa THEN d.mapa[k] ELSE Ninguno

----------------------------------------------------------------------------
(* Sheets and pd.read_excel *)

\* A sheet's cells: a function from <<row, column>> to the non-empty values.
FilasHoja(c) == IF DOMAIN c = {} THEN 0 ELSE 1 + CHOOSE r \in {p[1] : p \in DOMAIN c} : \A p \in DOMAIN c : p[1] <= r

ColsHoja(c) == IF DOMAIN c = {} THEN 0 ELSE 1 + CHOOSE k \in {p[2] : p \in DOMAIN c} : \A p \in DOMAIN c : p[2] <= k

CeldaHoja(c, r, k) == IF <<r, k>> \in DOMAIN c THEN c[<<r, k>>] ELSE NaN

\* pd.read_excel(..., sheet_name=...): the first sheet row becomes the column
\* labels; the data are the rows below it, as wide as the sheet.  v holds the
\* cells that are not NaN.
read_excel(c) ==
  LET nf == FilasHoja(c)
      m  == ColsHoja(c)
  IN [n |-> IF nf = 0 THEN 0 ELSE nf - 1,
      m |-> m,
      columns |-> [j \in 0..(m - 1) |-> CeldaHoja(c, 0, j)],
      v |-> [p \in {<<q[1] - 1, q[2]>> : q \in {x \in DOMAIN c : x[1] >= 1}} |-> c[<<p[1] + 1, p[2]>>]]]

\* df.iloc[i, j]
iloc(df, i, j) == IF <<i, j>> \in DOMAIN df.v THEN df.v[<<i, j>>] ELSE NaN

\* df.applymap(lambda x: x.strip() if isinstance(x, str) else x)
applymap_strip(df) ==
  [df EXCEPT !.v = [p \in DOMAIN df.v |-> IF EsStr(df.v[p]) THEN Str(Strip(df.v[p].s)) ELSE df.v[p]]]

\* Row-major order of positions
AntesOIgual(p, q) == p[1] < q[1] \/ (p[1] = q[1] /\ p[2] <= q[2])

Primera(S) == CHOOSE p \in S : \A q \in S : AntesOIgual(p, q)

Ultima(S) == CHOOSE p \in S : \A q \in S : AntesOIgual(q, p)

\* The cells whose text contains kw, case-insensitively
Posiciones(df, kw) == {p \in DOMAIN df.v : EsStr(df.v[p]) /\ Contiene(Lower(df.v[p].s), kw)}

----------------------------------------------------------------------------
(* Uploaded files: the bytes of a workbook *)

SinBytes == [tipo |-> "none", hojas |-> <<>>]

BytesVacios == [tipo |-> "vacio", hojas |-> <<>>]

BytesCorruptos == [tipo |-> "corrupto", hojas |-> <<>>]

Xlsx(hs) == [tipo |-> "xlsx", hojas |-> hs]

\* "if not xls_bytes" / "if existing_bytes": None and b"" are falsy
HayBytes(b) == b.tipo \notin {"none", "vacio"}

NombresHojas(b) == {b.hojas[i].nombre : i \in DOMAIN b.hojas}

IndiceHoja(b, nombre) == CHOOSE i \in DOMAIN b.hojas : b.hojas[i].nombre = nombre

\* Whether pd.read_excel(bytes, sheet_name=nombre) returns (it raises on bytes
\* that are no workbook and on a missing sheet)
SePuedeLeer(b, nombre) == b.tipo = "xlsx" /\ nombre \in NombresHojas(b)

----------------------------------------------------------------------------
(* leer_matriz_y_acciones *)

\* First cell, row-major, containing "gravedad" / "probabilidad"
grav_pos(df2) == Posiciones(df2, "gravedad")

prob_pos(df2) == Posiciones(df2, "probabilidad")

\* df2.iloc[gi+1, gj:gj+4]: the row must exist, the slice is cut at the edge
cols_celdas(df2, gi, gj) ==
  IF gi + 1 > df2.n - 1 THEN [ok |-> FALSE, xs |-> <<>>]
  ELSE [ok |-> TRUE,
        xs |-> [k \in 1..(Min2(gj + 3, df2.m - 1) - gj + 1) |-> iloc(df2, gi + 1, gj + k - 1)]]

\* df2.iloc[pi:pi+4, pj+1]: the column must exist, the slice is cut at the edge
rows_celdas(df2, pi, pj) ==
  IF pj + 1 > df2.m - 1 THEN [ok |-> FALSE, xs |-> <<>>]
  ELSE [ok |-> TRUE,
        xs |-> [k \in 1..(Min2(pi + 3, df2.n - 1) - pi + 1) |-> iloc(df2, pi + k - 1, pj + 1)]]

\* [int(x) for x in ...]: fails when one int() raises
Enteros(cs) ==
  IF cs.ok /\ \A k \in DOMAIN cs.xs : IntDe(cs.xs[k]).ok
  THEN [ok |-> TRUE, xs |-> [k \in DOMAIN cs.xs |-> IntDe(cs.xs[k]).n]]
  ELSE [ok |-> FALSE, xs |-> <<>>]

cols_keys(df2, gi, gj) == Enteros(cols_celdas(df2, gi, gj))

rows_keys(df2, pi, pj) == Enteros(rows_celdas(df2, pi, pj))

\* "isinstance(val, str) and val.strip()"
TextoNoVacio(v) == EsStr(v) /\ Strip(v.s) # <<>>

\* A variant of the block loop that stores a label under (g, p)
mapa_gp_to_cat(df2, pi, gj, rk, ck) ==
  LET E == {rc \in (DOMAIN rk) \X (DOMAIN ck) : TextoNoVacio(iloc(df2, pi + rc[1] - 1, gj + rc[2] - 1))}
      K == {<<ck[rc[2]], rk[rc[1]]>> : rc \in E}
  IN [k \in K |->
        LET rc == Ultima({x \in E : <<ck[x[2]], rk[x[1]]>> = k})
        IN Str(Strip(iloc(df2, pi + rc[1] - 1, gj + rc[2] - 1).s))]

\* The block loop: rows pi.., columns gj..; a later cell overwrites an earlier
\* one stored under the same (p, g) key
mapa_pg_to_cat(df2, pi, gj, rk, ck) ==
  LET E == {rc \in (DOMAIN rk) \X (DOMAIN ck) : TextoNoVacio(iloc(df2, pi + rc[1] - 1, gj + rc[2] - 1))}
      K == {<<rk[rc[1]], ck[rc[2]]>> : rc \in E}
  IN [k \in K |->
        LET rc == Ultima({x \in E : <<rk[x[1]], ck[x[2]]>> = k})
        IN Str(Strip(iloc(df2, pi + rc[1] - 1, gj + rc[2] - 1).s))]

\* The 'evaluacion del riesgo' scan: first such cell, the column to its right
\* if there is one, then every row below to the end of the sheet
cat_to_accion(df2) ==
  LET S == Posiciones(df2, "evaluacion del riesgo")
  IN IF S = {} THEN [c \in {} |-> Ninguno]
     ELSE LET pos == Primera(S)
              cat_row == pos[1]
              cat_col == pos[2]
          IN IF ~(cat_col + 1 < df2.m) THEN [c \in {} |-> Ninguno]
             ELSE LET act_col == cat_col + 1
                      F == {k \in (cat_row + 1)..(df2.n - 1) : TextoNoVacio(iloc(df2, k, cat_col))}
                      C == {Str(Strip(iloc(df2, k, cat_col).s)) : k \in F}
                  IN [c \in C |->
                        LET k == CHOOSE x \in F : /\ Str(Strip(iloc(df2, x, cat_col).s)) = c
                                                  /\ \A y \in F : Str(Strip(iloc(df2, y, cat_col).s)) = c => y <= x
                            aval == iloc(df2, k, act_col)
                        IN IF EsStr(aval) THEN Str(Strip(aval.s)) ELSE Str(<<>>)]

NingunoNinguno == [matriz |-> Ausente, acciones |-> Ausente]

\* A variant of the parser in which a key that fails int() costs the matrix
\* only, the action table being read all the same
leer_df2_sin_claves(df2) ==
  LET G == grav_pos(df2)
      P == prob_pos(df2)
  IN IF G = {} \/ P = {} THEN NingunoNinguno
     ELSE
       LET g  == Primera(G)
           p  == Primera(P)
           ck == cols_keys(df2, g[1], g[2])
           rk == rows_keys(df2, p[1], p[2])
       IN [matriz   |-> IF ~ck.ok \/ ~rk.ok THEN Ausente
                        ELSE DictONone(mapa_pg_to_cat(df2, p[1], g[2], rk.xs, ck.xs)),
           acciones |-> DictONone(cat_to_accion(df2))]

\* Lines 165-228, on the normalised frame
leer_df2(df2) ==
  LET G == grav_pos(df2)
      P == prob_pos(df2)
  IN IF G = {} \/ P = {} THEN NingunoNinguno
     ELSE
       LET g  == Primera(G)
           p  == Primera(P)
           ck == cols_keys(df2, g[1], g[2])
           rk == rows_keys(df2, p[1], p[2])
       IN IF ~ck.ok \/ ~rk.ok THEN NingunoNinguno
          ELSE [matriz   |-> DictONone(mapa_pg_to_cat(df2, p[1], g[2], rk.xs, ck.xs)),
                acciones |-> DictONone(cat_to_accion(df2))]

leer_matriz_y_acciones(xls_bytes) ==
  IF ~HayBytes(xls_bytes) THEN NingunoNinguno
  ELSE IF ~SePuedeLeer(xls_bytes, "TABLA RIESGO") THEN NingunoNinguno
  ELSE leer_df2(applymap_strip(read_excel(xls_bytes.hojas[IndiceHoja(xls_bytes, "TABLA RIESGO")].celdas)))

----------------------------------------------------------------------------
(* A TABLA RIESGO sheet laid out as the parser expects it *)

\* Bounds of the sheets that are built
MaxCeldas == 1

MaxAlteraciones == 1

Hoja(nombre, celdas) == [nombre |-> nombre, celdas |-> celdas]

\* The dict of a list of (category, action) rows
MapaDe(A) == [c \in {A[k].cat : k \in DOMAIN A} |-> A[CHOOSE k \in DOMAIN A : A[k].cat = c /\ \A j \in DOMAIN A : A[j].cat = c => j <= k].acc]

\* d: sheet coordinates (row 0 is the sheet's first row) of the 'Gravedad' cell
\* (gi, gj), the 'Probabilidad' cell (pi, pj) and the 'Evaluacion del riesgo'
\* cell (ei, ej), and the order of the severity and probability keys.
Construir(M, A, d) ==
  LET enc == (<<d.gi, d.gj>> :> Str(<<"Gravedad">>))
               @@ (<<d.pi, d.pj>> :> Str(<<"Probabilidad">>))
               @@ (<<d.ei, d.ej>> :> Str(<<"Evaluacion del riesgo">>))
               @@ (<<d.ei, d.ej + 1>> :> Str(<<"Accion y cronograma">>))
      clavesG == [p \in {<<d.gi + 1, d.gj + c - 1>> : c \in 1..4} |-> Ent(d.permG[p[2] - d.gj + 1])]
      clavesP == [p \in {<<d.pi + r - 1, d.pj + 1>> : r \in 1..4} |-> Ent(d.permP[p[1] - d.pi + 1])]
      RC == {rc \in (1..4) \X (1..4) : <<d.permP[rc[1]], d.permG[rc[2]]>> \in DOMAIN M}
      bloque == [p \in {<<d.pi + rc[1] - 1, d.gj + rc[2] - 1>> : rc \in RC}
                   |-> M[<<d.permP[p[1] - d.pi + 1], d.permG[p[2] - d.gj + 1]>>]]
      cats == [p \in {<<d.ei + k, d.ej>> : k \in DOMAIN A} |-> A[p[1] - d.ei].cat]
      accs == [p \in {<<d.ei + k, d.ej + 1>> : k \in {j \in DOMAIN A : A[j].acc.s # <<>>}} |-> A[p[1] - d.ei].acc]
  IN enc @@ clavesG @@ clavesP @@ bloque @@ cats @@ accs

LibroCon(celdas) == Xlsx(<<Hoja("TABLA RIESGO", celdas)>>)

Disposiciones ==
  { [gi |-> 1, gj |-> 2, pi |-> 3, pj |-> 0, ei |-> 8, ej |-> 0, permG |-> <<1, 2, 3, 4>>, permP |-> <<1, 2, 3, 4>>],
    [gi |-> 1, gj |-> 2, pi |-> 3, pj |-> 0, ei |-> 1, ej |-> 7, permG |-> <<3, 1, 4, 2>>, permP |-> <<4, 3, 1, 2>>],
    [gi |-> 1, gj |-> 0, pi |-> 3, pj |-> 4, ei |-> 2, ej |-> 7, permG |-> <<4, 3, 2, 1>>, permP |-> <<1, 2, 3, 4>>],
    [gi |-> 4, gj |-> 2, pi |-> 6, pj |-> 0, ei |-> 1, ej |-> 2, permG |-> <<1, 2, 3, 4>>, permP |-> <<2, 1, 4, 3>>],
    [gi |-> 0, gj |-> 2, pi |-> 2, pj |-> 0, ei |-> 1, ej |-> 7, permG |-> <<1, 2, 3, 4>>, permP |-> <<1, 2, 3, 4>>] }

Etiquetas == { Str(<<"Bajo">>), Str(<<" ", "Moderado">>) }

\* Action tables: lists of (category, action) rows
Tablas ==
  { <<>>,
    <<[cat |-> Str(<<"Bajo">>), acc |-> Str(<<"Revisar">>)], [cat |-> Str(<<"Alto">>), acc |-> Str(<<>>)]>>,
    <<[cat |-> Str(<<"Alto">>), acc |-> Str(<<"Parar">>)], [cat |-> Str(<<" ", "Moderado">>), acc |-> Str(<<"Revisar", " ">>)]>> }

MapaVacio == [k \in {} |-> Ninguno]

Disp0 == [gi |-> 1, gj |-> 2, pi |-> 3, pj |-> 0, ei |-> 1, ej |-> 7, permG |-> <<1, 2, 3, 4>>, permP |-> <<1, 2, 3, 4>>]

\* What a run of the script leaves on the page: nothing to download
Nada == [tipo |-> "nada", dato |-> <<>>]

\* The variables of the session at its start; libro is the number of the
\* uploaded file in Libros, 0 when none is uploaded
InitSesion ==
  /\ libro = 0
  /\ _buffer = <<>>
  /\ _fotos = MapaVacio
  /\ salida = Nada

\* The variables of the parser runs, where they play no part
InitSinHoja ==
  /\ subido = SinBytes
  /\ leido = NingunoNinguno
  /\ M_ref = MapaVacio
  /\ A_ref = <<>>
  /\ disp = Disp0
  /\ alteradas = 0

sesion == <<libro, _buffer, _fotos, salida>>

----------------------------------------------------------------------------
(* Round trip: a sheet is built cell by cell and read after each edit *)

\* A full matrix whose 16 labels all differ
MatrizCompleta == [k \in (1..4) \X (1..4) |-> Str(<<"P", ToString(k[1]), "G", ToString(k[2])>>)]

InitIdaVuelta ==
  /\ InitSesion
  /\ M_ref = MatrizCompleta
  /\ A_ref \in Tablas
  /\ disp \in Disposiciones
  /\ subido = LibroCon(Construir(M_ref, A_ref, disp))
  /\ leido = leer_matriz_y_acciones(subido)
  /\ alteradas = 0

\* The label of the cell (p, g) is replaced by e and the sheet uploaded again
PonerEtiqueta(p, g, e) ==
  /\ alteradas < MaxCeldas
  /\ <<p, g>> \in DOMAIN M_ref => M_ref[<<p, g>>] # e
  /\ alteradas' = alteradas + 1
  /\ M_ref' = [k \in DOMAIN M_ref \cup {<<p, g>>} |-> IF k = <<p, g>> THEN e ELSE M_ref[k]]
  /\ subido' = LibroCon(Construir(M_ref', A_ref, disp))
  /\ leido' = leer_matriz_y_acciones(subido')
  /\ UNCHANGED <<A_ref, disp, sesion>>

\* The cell (p, g) is emptied and the sheet uploaded again
QuitarEtiqueta(p, g) ==
  /\ alteradas < MaxCeldas
  /\ <<p, g>> \in DOMAIN M_ref
  /\ alteradas' = alteradas + 1
  /\ M_ref' = [k \in DOMAIN M_ref \ {<<p, g>>} |-> M_ref[k]]
  /\ subido' = LibroCon(Construir(M_ref', A_ref, disp))
  /\ leido' = leer_matriz_y_acciones(subido')
  /\ UNCHANGED <<A_ref, disp, sesion>>

NextIdaVuelta ==
  \/ \E p \in 1..4, g \in 1..4, e \in Etiquetas : PonerEtiqueta(p, g, e)
  \/ \E p \in 1..4, g \in 1..4 : QuitarEtiqueta(p, g)

SpecIdaVuelta == InitIdaVuelta /\ [][NextIdaVuelta]_vars

Esperado == [matriz |-> DictONone(M_ref), acciones |-> DictONone(MapaDe(A_ref))]

\* A text the parser stores as it stands: trimmed, not blank, none of the
\* three header words in it
TextoLimpio(v) ==
  /\ EsStr(v)
  /\ v.s # <<>>
  /\ Strip(v.s) = v.s
  /\ \A kw \in {"gravedad", "probabilidad", "evaluacion del riesgo"} : ~Contiene(Lower(v.s), kw)

\* The cells of the matrix region of a layout
CeldasMatriz(d) ==
  {<<d.gi, d.gj>>, <<d.pi, d.pj>>}
    \cup {<<d.gi + 1, d.gj + c>> : c \in 0..3}
    \cup {<<d.pi + r, d.pj + 1>> : r \in 0..3}
    \cup {<<d.pi + r, d.gj + c>> : r \in 0..3, c \in 0..3}

\* No header word in the sheet's first row, and nothing of the matrix below
\* the 'Evaluacion del riesgo' cell in its column
DisposicionLimpia(d) ==
  /\ d.gi >= 1
  /\ d.ei >= 1
  /\ \A p \in CeldasMatriz(d) : ~(p[2] = d.ej /\ p[1] > d.ei)

TextosLimpios ==
  /\ \A k \in DOMAIN M_ref : TextoLimpio(M_ref[k])
  /\ \A k \in DOMAIN A_ref : TextoLimpio(A_ref[k].cat) /\ Strip(A_ref[k].acc.s) = A_ref[k].acc.s

(* C6 (as stated): every sheet built in the expected layout from any M with
   non-empty labels and any A parses back to exactly M and A. *)
IdaVueltaTodo == leido = Esperado

(* C6 (as amended): a sheet built in the expected layout from M and A parses
   back to exactly M and A (an empty mapping as absent), provided every label
   and category is a trimmed, non-blank text without the header words, every
   action is trimmed, no header cell is in the sheet's first row, and nothing
   else lies below the 'Evaluacion del riesgo' cell in its column. *)
IdaVuelta == (DisposicionLimpia(disp) /\ TextosLimpios) => leido = Esperado

IdaVueltaTestigo ==
  /\ DisposicionLimpia(disp)
  /\ TextosLimpios
  /\ Cardinality(DOMAIN M_ref) = 15
  /\ Len(A_ref) = 2
  /\ disp.permG # <<1, 2, 3, 4>>
  /\ disp.permP # <<1, 2, 3, 4>>
  /\ leido.matriz.presente
  /\ leido.acciones.presente
  /\ leido = Esperado

----------------------------------------------------------------------------
(* Parser runs on uploads that are damaged: one cell at a time is overwritten
   or emptied and the file uploaded again *)

Par0 == <<[cat |-> Str(<<"Bajo">>), acc |-> Str(<<"Revisar">>)]>>

Subidas ==
  { BytesVacios,
    BytesCorruptos,
    Xlsx(<<Hoja("INFORME", (<<0, 0>> :> Str(<<"Gravedad">>)))>>),
    LibroCon(Construir((<<2, 3>> :> Str(<<"Alto">>)), Par0, Disp0)),
    LibroCon(Construir(MatrizCompleta, <<>>, Disp0)) }

Valores == { NaN, Str(<<"x">>), Str(<<" ">>), Dec(25), Str(<<" ", "3">>), Str(<<"GRAVEDAD">>) }

CeldasRiesgo(b) == b.hojas[IndiceHoja(b, "TABLA RIESGO")].celdas

\* The cells that may be overwritten: those in use and two empty ones ahead
\* of the headers
Alterables(b) == DOMAIN CeldasRiesgo(b) \cup {<<0, 0>>, <<1, 0>>}

Escribir(c, pos, v) ==
  IF v = NaN THEN [q \in DOMAIN c \ {pos} |-> c[q]]
  ELSE [q \in DOMAIN c \cup {pos} |-> IF q = pos THEN v ELSE c[q]]

InitParser ==
  /\ InitSesion
  /\ M_ref = MapaVacio
  /\ A_ref = <<>>
  /\ disp = Disp0
  /\ subido \in Subidas
  /\ leido = leer_matriz_y_acciones(subido)
  /\ alteradas = 0

Alterar(pos, v) ==
  /\ alteradas < MaxAlteraciones
  /\ SePuedeLeer(subido, "TABLA RIESGO")
  /\ pos \in Alterables(subido)
  /\ CeldaHoja(CeldasRiesgo(subido), pos[1], pos[2]) # v
  /\ alteradas' = alteradas + 1
  /\ subido' = LibroCon(Escribir(CeldasRiesgo(subido), pos, v))
  /\ leido' = leer_matriz_y_acciones(subido')
  /\ UNCHANGED <<M_ref, A_ref, disp, sesion>>

NextParser == \E pos \in (0..10) \X (0..9), v \in Valores : Alterar(pos, v)

SpecParser == InitParser /\ [][NextParser]_vars

\* The frame the parser works on
Df2Subido == applymap_strip(read_excel(CeldasRiesgo(subido)))

HayEncabezados == grav_pos(Df2Subido) # {} /\ prob_pos(Df2Subido) # {}

FilasBloque == Primera(prob_pos(Df2Subido))[1] .. Min2(Primera(prob_pos(Df2Subido))[1] + 3, Df2Subido.n - 1)

ColsBloque == Primera(grav_pos(Df2Subido))[2] .. Min2(Primera(grav_pos(Df2Subido))[2] + 3, Df2Subido.m - 1)

\* The key cells exist and int() accepts each of them
ClavesEnteras ==
  /\ Primera(grav_pos(Df2Subido))[1] + 1 <= Df2Subido.n - 1
  /\ Primera(prob_pos(Df2Subido))[2] + 1 <= Df2Subido.m - 1
  /\ \A j \in ColsBloque : IntDe(iloc(Df2Subido, Primera(grav_pos(Df2Subido))[1] + 1, j)).ok
  /\ \A i \in FilasBloque : IntDe(iloc(Df2Subido, i, Primera(prob_pos(Df2Subido))[2] + 1)).ok

HayCeldaDeBloque == \E i \in FilasBloque, j \in ColsBloque : TextoNoVacio(iloc(Df2Subido, i, j))

\* A non-blank text below the first 'evaluacion del riesgo' cell, which has a
\* column to its right
HayFilaDeCategoria ==
  /\ Posiciones(Df2Subido, "evaluacion del riesgo") # {}
  /\ LET e == Primera(Posiciones(Df2Subido, "evaluacion del riesgo"))
     IN /\ e[2] + 1 < Df2Subido.m
        /\ \E k \in (e[1] + 1)..(Df2Subido.n - 1) : TextoNoVacio(iloc(Df2Subido, k, e[2]))

(* C7: both results are absent when the TABLA RIESGO sheet is missing, a
   'gravedad' or 'probabilidad' cell is not found, or a key cell is missing or
   fails int(); otherwise the matrix is absent exactly when no block cell was
   recorded and the action table exactly when no category row was. *)
AusenciasDelParser ==
  IF ~(HayBytes(subido) /\ SePuedeLeer(subido, "TABLA RIESGO")) THEN leido = NingunoNinguno
  ELSE IF ~HayEncabezados THEN leido = NingunoNinguno
  ELSE IF ~ClavesEnteras THEN leido = NingunoNinguno
  ELSE /\ leido.matriz.presente <=> HayCeldaDeBloque
       /\ leido.acciones.presente <=> HayFilaDeCategoria

AusenciasTestigo ==
  /\ alteradas = 1
  /\ SePuedeLeer(subido, "TABLA RIESGO")
  /\ HayEncabezados
  /\ ~ClavesEnteras
  /\ HayFilaDeCategoria
  /\ HayCeldaDeBloque
  /\ leido = NingunoNinguno

----------------------------------------------------------------------------
(* Observacion, to_row and the DATOS frame *)

CAMPOS_ORDEN ==
  << "fecha", "empresa", "ubicacion", "area", "no_conformidad", "descripcion",
     "gravedad", "probabilidad", "riesgo", "categoria", "accion",
     "medida", "responsable", "plazo", "estado", "normativa", "foto_nombre" >>

\* Python truthiness
Verdadero(v) ==
  CASE v.t = "none" -> FALSE
    [] v.t = "str" -> v.s # <<>>
    [] v.t = "int" -> v.n # 0
    [] OTHER -> TRUE

\* date.isoformat(): the text yyyy-mm-dd of day n
isoformat(d) == [t |-> "str", n |-> d.n, s |-> <<"aaaa-mm-dd">>]

to_row(o) ==
  [o EXCEPT !.fecha = isoformat(o.fecha),
            !.plazo = IF Verdadero(o.plazo) THEN isoformat(o.plazo) ELSE Str(<<>>)]

\* pd.DataFrame([x.to_row() for x in buffer], columns=CAMPOS_ORDEN)
DataFrameDe(buf) ==
  [columns |-> [j \in DOMAIN CAMPOS_ORDEN |-> Str(<<CAMPOS_ORDEN[j]>>)],
   filas   |-> [i \in DOMAIN buf |-> [j \in DOMAIN CAMPOS_ORDEN |-> to_row(buf[i])[CAMPOS_ORDEN[j]]]]]

\* The label pandas gives a column: the header cell, or "Unnamed: j"
NombreCol(v, j) == IF v = NaN THEN Str(<<"Unnamed", ToString(j)>>) ELSE v

\* The frame read from a sheet, rows as lists
FrameLeido(c) ==
  LET df == read_excel(c)
  IN [columns |-> [j \in 1..df.m |-> NombreCol(df.columns[j - 1], j - 1)],
      filas   |-> [i \in 1..df.n |-> [j \in 1..df.m |-> iloc(df, i - 1, j - 1)]]]

\* pd.DataFrame(columns=CAMPOS_ORDEN)
FrameVacio == [columns |-> [j \in DOMAIN CAMPOS_ORDEN |-> Str(<<CAMPOS_ORDEN[j]>>)], filas |-> <<>>]

PosCol(cols, nombre) == CHOOSE j \in DOMAIN cols : cols[j] = nombre

TieneCol(cols, nombre) == \E j \in DOMAIN cols : cols[j] = nombre

\* A variant of concat that puts the rows of b first
concat_invertido(a, b) ==
  LET nuevas == SelectSeq(b.columns, LAMBDA x : ~TieneCol(a.columns, x))
      cols == a.columns \o nuevas
      fila(f, r) == [j \in DOMAIN cols |-> IF TieneCol(f.columns, cols[j]) THEN r[PosCol(f.columns, cols[j])] ELSE NaN]
  IN [columns |-> cols,
      filas |-> [i \in DOMAIN b.filas |-> fila(b, b.filas[i])] \o [i \in DOMAIN a.filas |-> fila(a, a.filas[i])]]

\* pd.concat([a, b], ignore_index=True): a's columns, then b's new ones; a
\* row has NaN under a column its frame lacks
concat(a, b) ==
  LET nuevas == SelectSeq(b.columns, LAMBDA x : ~TieneCol(a.columns, x))
      cols == a.columns \o nuevas
      fila(f, r) == [j \in DOMAIN cols |-> IF TieneCol(f.columns, cols[j]) THEN r[PosCol(f.columns, cols[j])] ELSE NaN]
  IN [columns |-> cols,
      filas |-> [i \in DOMAIN a.filas |-> fila(a, a.filas[i])] \o [i \in DOMAIN b.filas |-> fila(b, b.filas[i])]]

\* full[CAMPOS_ORDEN]
Seleccionar(full) ==
  [columns |-> [j \in DOMAIN CAMPOS_ORDEN |-> Str(<<CAMPOS_ORDEN[j]>>)],
   filas   |-> [i \in DOMAIN full.filas |-> [j \in DOMAIN CAMPOS_ORDEN |-> full.filas[i][PosCol(full.columns, Str(<<CAMPOS_ORDEN[j]>>))]]]]

\* What a cell holds once written: None, NaN and "" leave it empty
VacioEnCelda(v) == v.t \in {"none", "nan"} \/ (v.t = "str" /\ v.s = <<>>)

\* The cells to_excel(..., index=False) writes: the header row, then the rows
CeldasEscritas(fr) ==
  LET R == (0..Len(fr.filas)) \X (0..(Len(fr.columns) - 1))
      val(p) == IF p[1] = 0 THEN fr.columns[p[2] + 1] ELSE fr.filas[p[1]][p[2] + 1]
  IN [p \in {q \in R : ~VacioEnCelda(val(q))} |-> val(p)]

\* to_excel into a sheet the writer already holds: the frame's rectangle is
\* written over the sheet's cells, what lies outside it stays
to_excel_sobre(viejas, fr) ==
  LET R == (0..Len(fr.filas)) \X (0..(Len(fr.columns) - 1))
      nuevas == CeldasEscritas(fr)
  IN [p \in (DOMAIN viejas \ R) \cup DOMAIN nuevas |-> IF p \in DOMAIN nuevas THEN nuevas[p] ELSE viejas[p]]

\* Result of cargar_o_crear_excel_bytes: the bytes, or the exception raised
Excepcion == [ok |-> FALSE, bytes |-> SinBytes]

Devuelve(b) == [ok |-> TRUE, bytes |-> b]

\* A variant of the merge that writes a fresh workbook whatever was uploaded
solo_datos(existing_bytes, df_rows) ==
  IF HayBytes(existing_bytes) /\ existing_bytes.tipo # "xlsx" THEN Excepcion
  ELSE LET existing_df == IF SePuedeLeer(existing_bytes, "DATOS")
                          THEN FrameLeido(existing_bytes.hojas[IndiceHoja(existing_bytes, "DATOS")].celdas)
                          ELSE FrameVacio
       IN Devuelve(Xlsx(<<Hoja("DATOS", CeldasEscritas(Seleccionar(concat(existing_df, df_rows))))>>))

cargar_o_crear_excel_bytes(existing_bytes, df_rows) ==
  IF HayBytes(existing_bytes)
  THEN IF existing_bytes.tipo # "xlsx" THEN Excepcion
       ELSE
         LET existing_df == IF SePuedeLeer(existing_bytes, "DATOS")
                            THEN FrameLeido(existing_bytes.hojas[IndiceHoja(existing_bytes, "DATOS")].celdas)
                            ELSE FrameVacio
             full == Seleccionar(concat(existing_df, df_rows))
             hs == existing_bytes.hojas
         IN IF "DATOS" \in NombresHojas(existing_bytes)
            THEN Devuelve(Xlsx([i \in DOMAIN hs |->
                                  IF hs[i].nombre = "DATOS"
                                  THEN Hoja("DATOS", to_excel_sobre(hs[i].celdas, full))
                                  ELSE hs[i]]))
            ELSE Devuelve(Xlsx(Append(hs, Hoja("DATOS", CeldasEscritas(full)))))
  ELSE Devuelve(Xlsx(<<Hoja("DATOS", CeldasEscritas(df_rows))>>))

----------------------------------------------------------------------------
(* The files a user may upload *)

Bajo == Str(<<"Bajo">>)

Moderado == Str(<<"Moderado">>)

Alto == Str(<<"Alto">>)

\* A partial matrix that is not symmetric in (p, g)
MatrizRiesgo ==
  [k \in ((1..4) \X (1..4)) \ {<<4, 4>>, <<1, 3>>} |->
     IF k[1] + 2 * k[2] <= 5 THEN Bajo ELSE IF k[1] + 2 * k[2] <= 8 THEN Moderado ELSE Alto]

\* No row for "Alto"; an empty action for "Moderado"
AccionesRiesgo == <<[cat |-> Bajo, acc |-> Str(<<"Revisar">>)], [cat |-> Moderado, acc |-> Str(<<>>)]>>

\* A row written to DATOS in an earlier session
E1 ==
  [fecha |-> Fecha(1), empresa |-> Str(<<"Acme">>), ubicacion |-> Str(<<"SanJuan">>),
   area |-> Str(<<"Caldera">>), no_conformidad |-> Str(<<"Fuga">>), descripcion |-> Str(<<>>),
   gravedad |-> Ent(3), probabilidad |-> Ent(2), riesgo |-> Ent(6),
   categoria |-> Ninguno, accion |-> Ninguno, medida |-> Str(<<>>), responsable |-> Str(<<>>),
   plazo |-> Fecha(2), estado |-> Str(<<"Pendiente">>), normativa |-> Ninguno, foto_nombre |-> Ninguno]

CeldasInforme == (<<0, 0>> :> Str(<<"INFORME">>)) @@ (<<2, 1>> :> Ent(7))

LibroCompleto ==
  Xlsx(<< Hoja("INFORME", CeldasInforme),
          Hoja("TABLA RIESGO", Construir(MatrizRiesgo, AccionesRiesgo, Disp0)),
          Hoja("DATOS", CeldasEscritas(DataFrameDe(<<E1>>))) >>)

LibroSoloMatriz ==
  Xlsx(<< Hoja("TABLA RIESGO", Construir(MatrizCompleta, <<>>, Disp0)),
          Hoja("INFORME", CeldasInforme) >>)

\* A DATOS sheet with another header (columns in another order, one unknown,
\* most missing, one beyond the 17th) and a TABLA RIESGO sheet with a bad key
CeldasOtroEsquema ==
  (<<0, 0>> :> Str(<<"area">>)) @@ (<<0, 1>> :> Str(<<"fecha">>)) @@ (<<0, 2>> :> Str(<<"nota">>))
    @@ (<<0, 17>> :> Str(<<"extra">>))
    @@ (<<1, 0>> :> Str(<<"Caldera">>)) @@ (<<1, 1>> :> isoformat(Fecha(1))) @@ (<<1, 2>> :> Str(<<"ver">>))
    @@ (<<1, 17>> :> Str(<<"x">>))

LibroOtroEsquema ==
  Xlsx(<< Hoja("DATOS", CeldasOtroEsquema),
          Hoja("TABLA RIESGO", Escribir(Construir(MatrizRiesgo, AccionesRiesgo, Disp0), <<2, 3>>, Str(<<"x">>))) >>)

Libros == << BytesVacios, BytesCorruptos, LibroCompleto, LibroSoloMatriz, LibroOtroEsquema >>

\* libro.getvalue() if libro else None
Bytes(k) == IF k = 0 THEN SinBytes ELSE Libros[k]

\* Lines 305-308: the parse of the uploaded file, done on every run
LeidosLibros == [k \in DOMAIN Libros |-> leer_matriz_y_acciones(Libros[k])]

matriz_pg(k) == IF k = 0 THEN Ausente ELSE LeidosLibros[k].matriz

acciones_por_categoria(k) == IF k = 0 THEN Ausente ELSE LeidosLibros[k].acciones

----------------------------------------------------------------------------
(* The form and the buttons *)

SinFoto == [bytes |-> Ninguno, nombre |-> Ninguno]

Foto1 == [bytes |-> Str(<<"jpg">>), nombre |-> Str(<<"foto1.jpg">>)]

FormBase ==
  [empresa |-> Str(<<"Acme">>), ubicacion |-> Str(<<"SanJuan">>), fecha |-> Fecha(1),
   area |-> Str(<<"Hornos">>), no_conf |-> Str(<<"Tablero">>), desc |-> Str(<<>>),
   gravedad |-> 2, prob |-> 2, medida |-> Str(<<" ", "Tapar">>), responsable |-> Str(<<>>),
   plazo |-> Fecha(2), estado |-> Str(<<"Pendiente">>), normativa |-> Str(<<>>), foto |-> SinFoto]

\* A variant of the score that adds
riesgo_suma(gravedad, prob) == gravedad + prob

\* riesgo = int(gravedad * prob)
riesgo(gravedad, prob) == gravedad * prob

\* A variant of the lookup that keys the matrix by (g, p)
ClasificarGP(matriz, acciones, prob, gravedad) ==
  LET categoria == IF matriz.presente THEN Get(matriz, <<gravedad, prob>>) ELSE Ninguno
      accion == IF matriz.presente /\ Verdadero(categoria) /\ acciones.presente
                THEN Get(acciones, categoria) ELSE Ninguno
  IN [categoria |-> categoria, accion |-> accion]

\* A variant of the lookup that falls back to a fixed category
ClasificarPorDefecto(matriz, acciones, prob, gravedad) ==
  LET hallada == IF matriz.presente THEN Get(matriz, <<prob, gravedad>>) ELSE Ninguno
      categoria == IF Verdadero(hallada) THEN hallada ELSE Str(<<"Bajo">>)
      accion == IF Verdadero(categoria) /\ acciones.presente THEN Get(acciones, categoria) ELSE Ninguno
  IN [categoria |-> categoria, accion |-> accion]

\* Lines 335-340
Clasificar(matriz, acciones, prob, gravedad) ==
  LET categoria == IF matriz.presente THEN Get(matriz, <<prob, gravedad>>) ELSE Ninguno
      accion == IF matriz.presente /\ Verdadero(categoria) /\ acciones.presente
                THEN Get(acciones, categoria) ELSE Ninguno
  IN [categoria |-> categoria, accion |-> accion]

\* "x.strip() or None"
StripONone(v) == IF Strip(v.s) # <<>> THEN Str(Strip(v.s)) ELSE Ninguno

\* Lines 341-359
Observacion(f, k) ==
  LET c == Clasificar(matriz_pg(k), acciones_por_categoria(k), f.prob, f.gravedad)
  IN [fecha |-> f.fecha, empresa |-> f.empresa, ubicacion |-> f.ubicacion,
      area |-> Str(Strip(f.area.s)), no_conformidad |-> Str(Strip(f.no_conf.s)),
      descripcion |-> Str(Strip(f.desc.s)),
      gravedad |-> Ent(f.gravedad), probabilidad |-> Ent(f.prob),
      riesgo |-> Ent(riesgo(f.gravedad, f.prob)),
      categoria |-> c.categoria, accion |-> c.accion,
      medida |-> Str(Strip(f.medida.s)), responsable |-> Str(Strip(f.responsable.s)),
      plazo |-> IF Verdadero(f.plazo) THEN f.plazo ELSE Ninguno,
      estado |-> f.estado, normativa |-> StripONone(f.normativa),
      foto_nombre |-> f.foto.nombre]

\* The validation of lines 330-333
Incompleto(f) ==
  \/ ~Verdadero(f.empresa) \/ ~Verdadero(f.ubicacion)
  \/ ~Verdadero(f.area) \/ ~Verdadero(f.no_conf)

\* "Agregar hallazgo al informe"
AgregarHallazgo(f) ==
  /\ IF Incompleto(f)
     THEN /\ salida' = [tipo |-> "error", dato |-> <<>>]
          /\ UNCHANGED <<_buffer, _fotos>>
     ELSE /\ _buffer' = Append(_buffer, Observacion(f, libro))
          /\ _fotos' = IF Verdadero(f.foto.bytes) /\ Verdadero(f.foto.nombre)
                       THEN [n \in DOMAIN _fotos \cup {f.foto.nombre} |->
                               IF n = f.foto.nombre THEN f.foto.bytes ELSE _fotos[n]]
                       ELSE _fotos
          /\ salida' = [tipo |-> "agregado", dato |-> <<>>]
  /\ UNCHANGED <<libro, subido, leido, M_ref, A_ref, disp, alteradas>>

\* The file uploader of line 302: a file is chosen (k > 0) or removed (k = 0)
SubirLibro(k) ==
  /\ k # libro
  /\ libro' = k
  /\ salida' = Nada
  /\ UNCHANGED <<_buffer, _fotos, subido, leido, M_ref, A_ref, disp, alteradas>>

\* "Generar/actualizar Excel"
GenerarExcel ==
  /\ IF _buffer = <<>>
     THEN salida' = [tipo |-> "error", dato |-> <<>>]
     ELSE LET r == cargar_o_crear_excel_bytes(Bytes(libro), DataFrameDe(_buffer))
          IN salida' = IF r.ok THEN [tipo |-> "xlsx", dato |-> r.bytes]
                       ELSE [tipo |-> "excepcion", dato |-> <<>>]
  /\ UNCHANGED <<libro, _buffer, _fotos, subido, leido, M_ref, A_ref, disp, alteradas>>

\* por_area.setdefault(o.area, []).append(o.to_row()), over the buffer in
\* order; the dict as the list of its (key, value) pairs in insertion order
RECURSIVE Agrupar(_, _)
Agrupar(buf, acc) ==
  IF buf = <<>> THEN acc
  ELSE LET o == Head(buf)
       IN IF \E i \in DOMAIN acc : acc[i].area = o.area
          THEN Agrupar(Tail(buf), [i \in DOMAIN acc |->
                                     IF acc[i].area = o.area
                                     THEN [acc[i] EXCEPT !.items = Append(@, to_row(o))]
                                     ELSE acc[i]])
          ELSE Agrupar(Tail(buf), Append(acc, [area |-> o.area, items |-> <<to_row(o)>>]))

\* A variant of the grouping that opens a group for every finding
por_area_sin_agrupar(buf) == [i \in DOMAIN buf |-> [area |-> buf[i].area, items |-> <<to_row(buf[i])>>]]

por_area(buf) == Agrupar(buf, <<>>)

\* Lines 243-259: the template text area exists only when no logo is uploaded
DEFAULT_LOGO_DATA == Str(<<"data:image/png;base64">>)

Plantillas == {"defecto", "valida", "no_parsea", "no_renderiza"}

\* Lines 410-414: the template that is rendered, the user's when its text is
\* defined and parses, else the built-in one
tpl(logo_file, plantilla_txt) ==
  IF Verdadero(logo_file) THEN "DEFAULT_RESUMEN_TEMPLATE"
  ELSE IF plantilla_txt = "no_parsea" THEN "DEFAULT_RESUMEN_TEMPLATE"
  ELSE plantilla_txt

\* "Generar resumen (Markdown)"
GenerarResumen(f, logo_file, plantilla_txt) ==
  /\ IF _buffer = <<>>
     THEN salida' = [tipo |-> "error", dato |-> <<>>]
     ELSE LET ctx == [fecha |-> isoformat(f.fecha), empresa |-> f.empresa, ubicacion |-> f.ubicacion,
                      total |-> Len(_buffer), por_area |-> por_area(_buffer),
                      logo_data |-> IF Verdadero(logo_file) THEN logo_file ELSE DEFAULT_LOGO_DATA]
          IN salida' = IF tpl(logo_file, plantilla_txt) = "no_renderiza"
                       THEN [tipo |-> "excepcion", dato |-> <<>>]
                       ELSE [tipo |-> "resumen", dato |-> [tpl |-> tpl(logo_file, plantilla_txt), ctx |-> ctx]]
  /\ UNCHANGED <<libro, _buffer, _fotos, subido, leido, M_ref, A_ref, disp, alteradas>>

\* Bounds of the session
MaxBuffer == 2

MaxClasif == 1

MaxResumen == 3

\* The steps of a session whose forms are drawn from F, whose uploads from
\* the files numbered in L, and whose buffer holds at most tope findings
Paso(F, L, tope) ==
  \/ \E f \in F : Len(_buffer) < tope /\ AgregarHallazgo(f)
  \/ \E k \in L : SubirLibro(k)
  \/ GenerarExcel
  \/ \E logo_file \in {Ninguno, Str(<<"logo.png">>)}, plantilla_txt \in Plantillas :
       GenerarResumen(FormBase, logo_file, plantilla_txt)

\* Forms with a required field missing or blank, with and without a photo
FormulariosValidacion ==
  { FormBase,
    [FormBase EXCEPT !.area = Str(<<" ", "Rampa", " ">>), !.gravedad = 3, !.foto = Foto1],
    [FormBase EXCEPT !.empresa = Str(<<>>)],
    [FormBase EXCEPT !.ubicacion = Str(<<>>), !.foto = Foto1],
    [FormBase EXCEPT !.area = Str(<<>>), !.foto = Foto1],
    [FormBase EXCEPT !.no_conf = Str(<<>>)],
    [FormBase EXCEPT !.area = Str(<<" ">>)],
    [FormBase EXCEPT !.no_conf = Str(<<" ">>), !.normativa = Str(<<"Ley 19.587">>)] }

\* Every severity and probability the number inputs allow
FormulariosClasif == { [FormBase EXCEPT !.gravedad = g, !.prob = p] : g \in 1..4, p \in 1..4 }

\* Areas, one of them typed with spaces around it
FormulariosArea ==
  { FormBase,
    [FormBase EXCEPT !.area = Str(<<"Rampa">>)],
    [FormBase EXCEPT !.area = Str(<<" ", "Hornos">>), !.gravedad = 3] }

Init == InitSesion /\ InitSinHoja

Next == Paso(FormulariosValidacion, 0..Len(Libros), MaxBuffer)

Spec == Init /\ [][Next]_vars

NextClasif == Paso(FormulariosClasif, 0..Len(Libros), MaxClasif)

SpecClasif == Init /\ [][NextClasif]_vars

NextResumen == Paso(FormulariosArea, {0, 3}, MaxResumen)

SpecResumen == Init /\ [][NextResumen]_vars

----------------------------------------------------------------------------
(* Properties of the session *)

Ultimo(s) == s[Len(s)]

\* The step appends a finding to the buffer
SeAgrega == Len(_buffer') = Len(_buffer) + 1

CeldasDatos(b) == b.hojas[IndiceHoja(b, "DATOS")].celdas

\* What is found in a cell a value was written to
EnCelda(v) == IF v.t \in {"none", "nan"} \/ v = Str(<<>>) THEN NaN ELSE v

\* The DATOS cells of the uploaded file, none if it has no such sheet
DatosSubidos ==
  IF Bytes(libro).tipo = "xlsx" /\ "DATOS" \in NombresHojas(Bytes(libro))
  THEN CeldasDatos(Bytes(libro)) ELSE [q \in {} |-> NaN]

FilasSubidas == IF FilasHoja(DatosSubidos) = 0 THEN 0 ELSE FilasHoja(DatosSubidos) - 1

\* The columns of the uploaded DATOS sheet headed by the j-th field name
ColumnasDe(j) ==
  {q \in 0..(ColsHoja(DatosSubidos) - 1) : CeldaHoja(DatosSubidos, 0, q) = Str(<<CAMPOS_ORDEN[j]>>)}

(* C1 as stated: the data rows of the exported DATOS sheet are the rows of the
   uploaded DATOS sheet as they were, followed by the buffer's records in
   order, in the 17 columns; with no upload the workbook has the one sheet
   DATOS.  Fails for an uploaded DATOS sheet with another header. *)
FilasTalCual ==
  salida.tipo = "xlsx" =>
    LET out == CeldasDatos(salida.dato)
    IN /\ FilasHoja(out) = 1 + FilasSubidas + Len(_buffer)
       /\ ColsHoja(out) = Len(CAMPOS_ORDEN)
       /\ \A j \in DOMAIN CAMPOS_ORDEN : CeldaHoja(out, 0, j - 1) = Str(<<CAMPOS_ORDEN[j]>>)
       /\ \A i \in 1..FilasSubidas, j \in DOMAIN CAMPOS_ORDEN :
            CeldaHoja(out, i, j - 1) = CeldaHoja(DatosSubidos, i, j - 1)
       /\ \A i \in DOMAIN _buffer, j \in DOMAIN CAMPOS_ORDEN :
            CeldaHoja(out, FilasSubidas + i, j - 1) = EnCelda(to_row(_buffer[i])[CAMPOS_ORDEN[j]])
       /\ libro = 0 => [i \in DOMAIN salida.dato.hojas |-> salida.dato.hojas[i].nombre] = <<"DATOS">>

(* C1: in the first 17 columns of the exported DATOS sheet, the header is the
   fixed field list, the rows below it are the rows of the uploaded DATOS
   sheet in order, each cell taken from the uploaded column of the same name
   and empty where there is none, followed by the buffer's records in order;
   with no upload the workbook has the one sheet DATOS. *)
FilasPorNombre ==
  salida.tipo = "xlsx" =>
    LET out == CeldasDatos(salida.dato)
    IN /\ FilasHoja(out) = 1 + FilasSubidas + Len(_buffer)
       /\ \A j \in DOMAIN CAMPOS_ORDEN : CeldaHoja(out, 0, j - 1) = Str(<<CAMPOS_ORDEN[j]>>)
       /\ \A i \in 1..FilasSubidas, j \in DOMAIN CAMPOS_ORDEN :
            CeldaHoja(out, i, j - 1) =
              IF ColumnasDe(j) = {} THEN NaN
              ELSE CeldaHoja(DatosSubidos, i, CHOOSE q \in ColumnasDe(j) : TRUE)
       /\ \A i \in DOMAIN _buffer, j \in DOMAIN CAMPOS_ORDEN :
            CeldaHoja(out, FilasSubidas + i, j - 1) = EnCelda(to_row(_buffer[i])[CAMPOS_ORDEN[j]])
       /\ libro = 0 => [i \in DOMAIN salida.dato.hojas |-> salida.dato.hojas[i].nombre] = <<"DATOS">>

\* Two findings exported into a DATOS sheet that has another header
FilasPorNombreTestigo ==
  /\ salida.tipo = "xlsx"
  /\ libro # 0
  /\ Bytes(libro) = LibroOtroEsquema
  /\ Len(_buffer) = 2
  /\ _buffer[1] # _buffer[2]
  /\ CeldaHoja(CeldasDatos(salida.dato), 1, 3) = Str(<<"Caldera">>)

EsAjena(h) == h.nombre # "DATOS"

(* C2: when a file was uploaded, the sheets of the exported workbook other
   than DATOS are those of the upload, in the same order, under the same names
   and with the same cells. *)
HojasAjenas ==
  (salida.tipo = "xlsx" /\ libro # 0) =>
    SelectSeq(salida.dato.hojas, EsAjena) = SelectSeq(Bytes(libro).hojas, EsAjena)

\* An export into a workbook with two other sheets, whose DATOS sheet grew
HojasAjenasTestigo ==
  /\ salida.tipo = "xlsx"
  /\ libro # 0
  /\ Bytes(libro) = LibroCompleto
  /\ Len(SelectSeq(salida.dato.hojas, EsAjena)) = 2
  /\ CeldasDatos(salida.dato) # CeldasDatos(LibroCompleto)

(* C3: a finding added with probability p and severity g gets the matrix entry
   under (p, g) as its category when a matrix is present and has the key, else
   none; it gets the action-table entry of that category as its action when
   the category and the table are present, else none.  The matrix is the one
   read from the uploaded sheet, so for the sheet built from MatrizRiesgo the
   category is MatrizRiesgo's entry. *)
ClasificacionAlAgregar ==
  [][SeAgrega =>
       LET o == Ultimo(_buffer')
           k == <<o.probabilidad.n, o.gravedad.n>>
           M == matriz_pg(libro)
           A == acciones_por_categoria(libro)
           cat == IF M.presente /\ k \in DOMAIN M.mapa THEN M.mapa[k] ELSE Ninguno
           acc == IF cat # Ninguno /\ A.presente /\ cat \in DOMAIN A.mapa THEN A.mapa[cat] ELSE Ninguno
       IN /\ o.categoria = cat
          /\ o.accion = acc
          /\ (libro # 0 /\ Bytes(libro) = LibroCompleto) =>
               o.categoria = IF k \in DOMAIN MatrizRiesgo THEN MatrizRiesgo[k] ELSE Ninguno]_vars

\* A finding with p = 3, g = 1 classified under the asymmetric matrix
ClasificacionTestigo ==
  /\ salida.tipo = "agregado"
  /\ libro # 0
  /\ Bytes(libro) = LibroCompleto
  /\ Ultimo(_buffer).probabilidad = Ent(3)
  /\ Ultimo(_buffer).gravedad = Ent(1)
  /\ Ultimo(_buffer).categoria = Bajo
  /\ Ultimo(_buffer).accion = Str(<<"Revisar">>)

(* C4 as stated: a finding is added with a category, and likewise with an
   action, only if both the matrix and the action table were read and the
   matrix has an entry for its (p, g).  Fails for a sheet with a matrix and no
   action table. *)
CategoriaSoloConAmbas ==
  [][SeAgrega =>
       LET o == Ultimo(_buffer')
           ambas == /\ matriz_pg(libro).presente
                    /\ acciones_por_categoria(libro).presente
                    /\ <<o.probabilidad.n, o.gravedad.n>> \in DOMAIN matriz_pg(libro).mapa
       IN /\ o.categoria # Ninguno => ambas
          /\ o.accion # Ninguno => ambas]_vars

(* C4: a finding is added with a category only if a matrix was read and has
   an entry for its (p, g); it is added with an action only if it has a
   category and an action table was read that has an entry for it. *)
CategoriaSoloConMatriz ==
  [][SeAgrega =>
       LET o == Ultimo(_buffer')
       IN /\ o.categoria # Ninguno =>
               /\ matriz_pg(libro).presente
               /\ <<o.probabilidad.n, o.gravedad.n>> \in DOMAIN matriz_pg(libro).mapa
          /\ o.accion # Ninguno =>
               /\ o.categoria # Ninguno
               /\ acciones_por_categoria(libro).presente
               /\ o.categoria \in DOMAIN acciones_por_categoria(libro).mapa]_vars

\* A finding added under a sheet with a matrix and no action table
CategoriaTestigo ==
  /\ salida.tipo = "agregado"
  /\ libro # 0
  /\ Bytes(libro) = LibroSoloMatriz
  /\ matriz_pg(libro).presente
  /\ ~acciones_por_categoria(libro).presente
  /\ Ultimo(_buffer).categoria # Ninguno
  /\ Ultimo(_buffer).accion = Ninguno

(* C5: every record of the buffer has severity and probability in 1..4 and a
   risk score equal to their product, which lies in 1..16. *)
PuntajeDeRiesgo ==
  \A i \in DOMAIN _buffer :
    /\ _buffer[i].gravedad.t = "int" /\ _buffer[i].gravedad.n \in 1..4
    /\ _buffer[i].probabilidad.t = "int" /\ _buffer[i].probabilidad.n \in 1..4
    /\ _buffer[i].riesgo = Ent(_buffer[i].gravedad.n * _buffer[i].probabilidad.n)
    /\ _buffer[i].riesgo.n \in 1..16

PuntajeTestigo ==
  \E i \in DOMAIN _buffer :
    /\ _buffer[i].gravedad = Ent(4)
    /\ _buffer[i].probabilidad = Ent(3)
    /\ _buffer[i].riesgo = Ent(12)

(* C8 as stated: every record of the buffer has a non-empty organization,
   location, area and nonconformity title.  Fails for an area or a title of
   spaces, which passes the validation and is stored stripped. *)
RegistrosCompletos ==
  \A i \in DOMAIN _buffer :
    /\ _buffer[i].empresa # Str(<<>>)
    /\ _buffer[i].ubicacion # Str(<<>>)
    /\ _buffer[i].area # Str(<<>>)
    /\ _buffer[i].no_conformidad # Str(<<>>)

(* C9 as stated: an export under an uploaded file that is no workbook yields
   no workbook.  Fails for an uploaded file of zero bytes. *)
SinLibroSiNoSeLee ==
  (libro # 0 /\ Bytes(libro).tipo # "xlsx") => salida.tipo # "xlsx"

RECURSIVE SumaDeGrupos(_)
SumaDeGrupos(pa) == IF pa = <<>> THEN 0 ELSE Len(Head(pa).items) + SumaDeGrupos(Tail(pa))

PrimeraVez(a) == CHOOSE i \in DOMAIN _buffer : _buffer[i].area = a /\ \A j \in 1..(i - 1) : _buffer[j].area # a

(* C10: in a rendered summary por_area has one key for each distinct area of
   the buffer, the keys in the order of their first finding, each key's list
   the buffer's findings of that area in order, and total is the length of the
   buffer and the sum of the group sizes. *)
GruposPorArea ==
  salida.tipo = "resumen" =>
    LET pa == salida.dato.ctx.por_area
    IN /\ {pa[i].area : i \in DOMAIN pa} = {_buffer[i].area : i \in DOMAIN _buffer}
       /\ \A i, j \in DOMAIN pa : i < j => PrimeraVez(pa[i].area) < PrimeraVez(pa[j].area)
       /\ \A i \in DOMAIN pa :
            LET suyos == SelectSeq(_buffer, LAMBDA o : o.area = pa[i].area)
            IN pa[i].items = [k \in DOMAIN suyos |-> to_row(suyos[k])]
       /\ salida.dato.ctx.total = Len(_buffer)
       /\ salida.dato.ctx.total = SumaDeGrupos(pa)

\* Three findings in two areas, the first area's findings not adjacent
GruposTestigo ==
  /\ salida.tipo = "resumen"
  /\ Len(_buffer) = 3
  /\ _buffer[1].area = _buffer[3].area
  /\ _buffer[1].area # _buffer[2].area
  /\ _buffer[1] # _buffer[3]
  /\ Len(salida.dato.ctx.por_area) = 2
  /\ Len(salida.dato.ctx.por_area[1].items) = 2

\* The template the summary is expected to come from: the user's text when it
\* parses and renders, else the built-in one
PlantillaEsperada(plantilla_txt) ==
  IF plantilla_txt \in {"no_parsea", "no_renderiza"} THEN "DEFAULT_RESUMEN_TEMPLATE" ELSE plantilla_txt

(* C11 as stated: a summary request with a non-empty buffer yields a document,
   rendered from the user's template when it parses and renders, with or
   without an uploaded logo, and from the built-in template with the same
   data when it fails to parse or to render.  Fails for a template that
   parses and fails to render, which yields no document, and for a template
   of the user's written before a logo was uploaded, which is not used. *)
ResumenSiempre ==
  [][\A logo_file \in {Ninguno, Str(<<"logo.png">>)}, plantilla_txt \in Plantillas :
       (_buffer # <<>> /\ GenerarResumen(FormBase, logo_file, plantilla_txt)) =>
         /\ salida'.tipo = "resumen"
         /\ salida'.dato.tpl = PlantillaEsperada(plantilla_txt)
         /\ salida'.dato.ctx.total = Len(_buffer)
         /\ salida'.dato.ctx.por_area = por_area(_buffer)]_vars

====
